---------------------------- MODULE Spec2Model ----------------------------
(***************************************************************************)
(* A model of optimize_images.py: the batch loop of main, the per-file     *)
(* pipeline process_one, and the pure helpers sanitize_filename and        *)
(* resize_preserve_ratio (with the IEEE-754 double arithmetic of its       *)
(* dimension formula), together with the pathlib operations the pipeline   *)
(* relies on (stem, suffix, with_suffix).                                  *)
(*                                                                         *)
(* Text is modelled as a sequence of characters, each character a string;  *)
(* a character outside ASCII is written as its code point ("U+00E9").      *)
(***************************************************************************)
EXTENDS Integers, Sequences, FiniteSets, TLC

VARIABLES
    \* ---- command line and environment (fixed for a run) ----
    tree,            \* the files under the input root
    input_exists,    \* input_dir.exists()
    recursive,       \* --recursive
    no_rename,       \* --no-rename
    use_tinypng,     \* --tinypng
    keep_structure,  \* --keep-structure
    TINIFY_AVAILABLE,\* import tinify succeeded
    AVIF_SUPPORTED,  \* import pillow_avif succeeded
    key_present,     \* TINIFY_KEY is in os.environ
    \* ---- main ----
    pc,              \* position in main
    exit_code,       \* -1 while running, then the process exit status
    files,           \* list(iter_images(...))
    idx,             \* index in files of the file of the current loop turn
    \* ---- process_one (current call) ----
    pcf,             \* position in process_one ("idle" outside a call)
    img,             \* size of the image in memory, or NoImg
    orientation,     \* the log label
    stem,            \* resolved output stem
    base_out,        \* target_dir / stem
    written,         \* the dict of save_formats_from_image: format -> path
    \* ---- the world ----
    dirs,            \* directories existing under the output root
    disk,            \* files under the output root: path and the source they hold
    stdout,          \* lines printed on the output stream
    stderr,          \* lines printed on the error stream
    \* ---- history (not read by the program) ----
    calls,           \* sources handed to process_one, in order
    reads,           \* sources opened with Image.open
    writes,          \* every write made: path and source
    faults,          \* sources whose processing met an environment failure
    remote_done,     \* the current call went through the remote round-trip
    \* ---- pure-function harnesses ----
    sx, s1, s2,      \* sanitize: input, sanitize(input), sanitize(sanitize(input))
    rw, rh, rout     \* resize: input width, height, and the result

pipeVars == <<tree, input_exists, recursive, no_rename, use_tinypng, keep_structure,
              TINIFY_AVAILABLE, AVIF_SUPPORTED, key_present, pc, exit_code, files, idx,
              pcf, img, orientation, stem, base_out, written, dirs, disk, stdout,
              stderr, calls, reads, writes, faults, remote_done>>
sanVars == <<sx, s1, s2>>
resVars == <<rw, rh, rout>>
vars == <<pipeVars, sanVars, resVars>>

-----------------------------------------------------------------------------
(* Bounds of the model *)

\* at most this many entries in the input tree
MaxFiles == 2
\* at most this many environment failures (remote call, file I/O) in a run
MaxFaults == 1
\* sanitize_filename is applied to every text of at most this length
MaxStemLen == 3
\* resize_preserve_ratio is applied to every size in (1..MaxDim) \X (1..MaxDim),
\* and to the sizes of ExtraDims
MaxDim == 13

-----------------------------------------------------------------------------
(* Program constants *)

TARGET_SIZE == 3333

\* bits of the significand of a Python float (IEEE-754 binary64)
MantBits == 53

image == <<"i", "m", "a", "g", "e">>

exts == { <<".", "p", "n", "g">>, <<".", "j", "p", "g">>, <<".", "j", "p", "e", "g">>,
          <<".", "w", "e", "b", "p">>, <<".", "t", "i", "f">>, <<".", "t", "i", "f", "f">>,
          <<".", "b", "m", "p">>, <<".", "g", "i", "f">> }

-----------------------------------------------------------------------------
(* Characters *)

UpperLetters == <<"A", "B", "C", "D", "E", "F", "G", "H", "I", "J", "K", "L", "M",
                  "N", "O", "P", "Q", "R", "S", "T", "U", "V", "W", "X", "Y", "Z">>
LowerLetters == <<"a", "b", "c", "d", "e", "f", "g", "h", "i", "j", "k", "l", "m",
                  "n", "o", "p", "q", "r", "s", "t", "u", "v", "w", "x", "y", "z">>
Digits == {"0", "1", "2", "3", "4", "5", "6", "7", "8", "9"}

\* the class [a-z0-9_] of the regular expression
SlugChars == {LowerLetters[i] : i \in 1..26} \cup Digits \cup {"_"}

\* str.lower() on one character
Lower(c) ==
    IF \E i \in 1..26 : UpperLetters[i] = c
    THEN LowerLetters[CHOOSE i \in 1..26 : UpperLetters[i] = c]
    ELSE IF c = "U+00C9" THEN "U+00E9" ELSE c

\* unicodedata.normalize("NFKD", c) for one character:
\*   U+00E9 (e acute) -> e U+0301      U+00C9 (E acute) -> E U+0301
\*   U+00A0 (no-break space) -> space  U+FF3F (fullwidth low line) -> _
\*   U+00DF (sharp s) and ASCII are unchanged
Decompose(c) ==
    CASE c = "U+00E9" -> <<"e", "U+0301">>
      [] c = "U+00C9" -> <<"E", "U+0301">>
      [] c = "U+00A0" -> <<" ">>
      [] c = "U+FF3F" -> <<"_">>
      [] OTHER -> <<c>>

\* str.lower()
LowerAll(s) == [i \in 1..Len(s) |-> Lower(s[i])]

\* unicodedata.combining(c) != 0
Combining(c) == c = "U+0301"

-----------------------------------------------------------------------------
(* sanitize_filename *)

RECURSIVE Flatten(_)
Flatten(ss) == IF ss = <<>> THEN <<>> ELSE Head(ss) \o Flatten(Tail(ss))

\* stem.replace("-", "_").replace(" ", "_")
ReplaceSeparators(s) == [i \in 1..Len(s) |-> IF s[i] \in {"-", " "} THEN "_" ELSE s[i]]

NFKD(s) == Flatten([i \in 1..Len(s) |-> Decompose(s[i])])

StripCombining(s) == SelectSeq(s, LAMBDA c : ~Combining(c))

\* re.sub(r"[^a-z0-9_]+", "", stem)
RemoveOther(s) == SelectSeq(s, LAMBDA c : c \in SlugChars)

\* re.sub(r"_+", "_", stem)
RECURSIVE CollapseUnderscores(_)
CollapseUnderscores(s) ==
    IF Len(s) < 2 THEN s
    ELSE IF s[1] = "_" /\ s[2] = "_" THEN CollapseUnderscores(Tail(s))
    ELSE <<s[1]>> \o CollapseUnderscores(Tail(s))

\* str.strip("_")
RECURSIVE LStrip(_)
LStrip(s) == IF s # <<>> /\ Head(s) = "_" THEN LStrip(Tail(s)) ELSE s
RECURSIVE RStrip(_)
RStrip(s) == IF s # <<>> /\ s[Len(s)] = "_" THEN RStrip(SubSeq(s, 1, Len(s) - 1)) ELSE s
StripUnderscores(s) == RStrip(LStrip(s))

\* a plausible slip: the underscores are collapsed and trimmed before the other
\* characters are removed
sanitize_filename_CollapseFirst(s) ==
    LET r == RemoveOther(StripUnderscores(CollapseUnderscores(
                 LowerAll(StripCombining(NFKD(ReplaceSeparators(s)))))))
    IN  IF r = <<>> THEN image ELSE r

sanitize_filename(s) ==
    LET r == StripUnderscores(CollapseUnderscores(RemoveOther(
                 LowerAll(StripCombining(NFKD(ReplaceSeparators(s)))))))
    IN  IF r = <<>> THEN image ELSE r

-----------------------------------------------------------------------------
(* pathlib: PurePath.suffix, .stem, .with_suffix *)

\* name.rfind("."), 1-based, 0 when there is no dot
RFindDot(name) ==
    LET D == {i \in 1..Len(name) : name[i] = "."}
    IN  IF D = {} THEN 0 ELSE CHOOSE i \in D : \A j \in D : j <= i

HasSuffix(name) == 1 < RFindDot(name) /\ RFindDot(name) < Len(name)

Suffix(name) == IF HasSuffix(name) THEN SubSeq(name, RFindDot(name), Len(name)) ELSE <<>>

Stem(name) == IF HasSuffix(name) THEN SubSeq(name, 1, RFindDot(name) - 1) ELSE name

\* path.with_suffix(suffix): the suffix of the last component is replaced
with_suffix(path, suffix) == [path EXCEPT !.name = Stem(path.name) \o suffix]

-----------------------------------------------------------------------------
(* Python float arithmetic (IEEE-754 binary64, round-half-to-even).  A float is *)
(* mant * 2^exp, mant a sequence of at most MantBits bits, most significant     *)
(* first.  The bits are handled Chunk bits at a time, so that every             *)
(* intermediate integer stays below 2^31; the ints involved are below 2^14.     *)

Chunk == 16
FracChunks == 5

\* the low `width` bits of n, most significant first
ToBits(n, width) == [i \in 1..width |-> (n \div 2^(width - i)) % 2]

\* the value of at most 30 bits
RECURSIVE BitsToNat(_)
BitsToNat(b) ==
    IF Len(b) = 0 THEN 0
    ELSE IF Len(b) = 1 THEN b[1]
    ELSE LET m == Len(b) \div 2
         IN  BitsToNat(SubSeq(b, 1, m)) * 2^(Len(b) - m) + BitsToNat(SubSeq(b, m + 1, Len(b)))

\* b without its leading zeros
StripZeros(b) ==
    LET O == {i \in 1..Len(b) : b[i] = 1}
    IN  IF O = {} THEN <<>> ELSE SubSeq(b, CHOOSE i \in O : \A j \in O : i <= j, Len(b))

\* b + 1 on a sequence of bits (one bit longer when b is all ones)
Inc(b) ==
    LET Z == {i \in 1..Len(b) : b[i] = 0}
    IN  IF Z = {} THEN <<1>> \o [i \in 1..Len(b) |-> 0]
        ELSE LET z == CHOOSE i \in Z : \A j \in Z : j <= i
             IN  [i \in 1..Len(b) |-> IF i < z THEN b[i] ELSE IF i = z THEN 1 ELSE 0]

\* round-half-to-even of the exact value (bits, then a nonzero tail iff sticky)
\* to MantBits significant bits; drop is the number of low bits dropped
RoundNearestEven(bits, sticky) ==
    IF Len(bits) <= MantBits THEN [mant |-> bits, drop |-> 0]
    ELSE LET keep  == SubSeq(bits, 1, MantBits)
             guard == bits[MantBits + 1]
             rest  == sticky \/ \E i \in (MantBits + 2)..Len(bits) : bits[i] = 1
             up    == guard = 1 /\ (rest \/ keep[MantBits] = 1)
             m     == IF up THEN Inc(keep) ELSE keep
         IN  IF Len(m) > MantBits
             THEN [mant |-> SubSeq(m, 1, MantBits), drop |-> Len(bits) - MantBits + 1]
             ELSE [mant |-> m, drop |-> Len(bits) - MantBits]

\* k chunks of the binary expansion of r / d (0 <= r < d), and the remainder left
RECURSIVE FracBits(_, _, _)
FracBits(r, d, k) ==
    IF k = 0 THEN [bits |-> <<>>, r |-> r]
    ELSE LET t    == r * 2^Chunk
             rest == FracBits(t % d, d, k - 1)
         IN  [bits |-> ToBits(t \div d, Chunk) \o rest.bits, r |-> rest.r]

\* n / d for ints 1 <= n, d < 2^14: the correctly rounded quotient
TrueDiv(n, d) ==
    LET f    == FracBits(n % d, d, FracChunks)
        bits == StripZeros(ToBits(n \div d, Chunk) \o f.bits)
        r    == RoundNearestEven(bits, f.r # 0)
    IN  [mant |-> r.mant, exp |-> r.drop - FracChunks * Chunk]

\* bits * k + carry for an int 1 <= k < 2^14, as bits (leading zeros kept)
RECURSIVE MulBits(_, _, _)
MulBits(bits, k, carry) ==
    IF bits = <<>> THEN ToBits(carry, Chunk)
    ELSE LET m  == IF Len(bits) < Chunk THEN Len(bits) ELSE Chunk
             lo == BitsToNat(SubSeq(bits, Len(bits) - m + 1, Len(bits)))
             t  == lo * k + carry
         IN  MulBits(SubSeq(bits, 1, Len(bits) - m), k, t \div 2^m) \o ToBits(t % 2^m, m)

\* k * f for an int 1 <= k < 2^14 (k converts to float exactly) and a float f
MulIntFloat(k, f) ==
    LET r == RoundNearestEven(StripZeros(MulBits(f.mant, k, 0)), FALSE)
    IN  [mant |-> r.mant, exp |-> f.exp + r.drop]

\* int(f) for a float 0 <= f < 2^30: truncation
IntOfFloat(f) ==
    IF f.exp >= 0 THEN BitsToNat(f.mant \o [i \in 1..f.exp |-> 0])
    ELSE IF -f.exp >= Len(f.mant) THEN 0
    ELSE BitsToNat(SubSeq(f.mant, 1, Len(f.mant) + f.exp))

-----------------------------------------------------------------------------
(* resize_preserve_ratio: the size handed to img.resize *)

is_landscape(w, h) == w >= h

NewSize(w, h, max_size) ==
    IF w >= h
    THEN [w |-> max_size, h |-> IntOfFloat(MulIntFloat(h, TrueDiv(max_size, w)))]
    ELSE [w |-> IntOfFloat(MulIntFloat(w, TrueDiv(max_size, h))), h |-> max_size]

\* Image.resize raises ValueError ("height and width must be > 0") otherwise
ResizeAccepts(size) == size.w >= 1 /\ size.h >= 1

-----------------------------------------------------------------------------
(* The input tree *)

png == <<".", "p", "n", "g">>

\* The entries an input tree is drawn from, each known by its index.  dir is the
\* directory of the entry relative to the input root, kind tells a regular file from
\* a directory, good says whether Image.open can decode the file, w and h are the
\* size of the decoded image.
Entries ==
    << [dir |-> <<>>, name |-> <<"a">> \o png, kind |-> "file", w |-> 4000, h |-> 3000, good |-> TRUE],
       [dir |-> <<>>, name |-> <<"a", ".", "J", "P", "G">>, kind |-> "file", w |-> 13, h |-> 13, good |-> TRUE],
       [dir |-> <<"sub">>, name |-> <<"a", ".", "v", "2">> \o png, kind |-> "file", w |-> 3333, h |-> 2000, good |-> TRUE],
       [dir |-> <<>>, name |-> <<"t">> \o png, kind |-> "file", w |-> 1, h |-> 4000, good |-> TRUE],
       [dir |-> <<>>, name |-> <<"b">> \o png, kind |-> "file", w |-> 0, h |-> 0, good |-> FALSE],
       [dir |-> <<>>, name |-> <<"n", ".", "t", "x", "t">>, kind |-> "file", w |-> 0, h |-> 0, good |-> FALSE] >>

Universe == DOMAIN Entries

Trees == {T \in SUBSET Universe : Cardinality(T) <= MaxFiles}

\* iter_images: glob("*") sees the entries of the root, rglob("*") all of them
iter_images(t, rec) ==
    {p \in t : /\ rec \/ Entries[p].dir = <<>>
               /\ Entries[p].kind = "file"
               /\ LowerAll(Suffix(Entries[p].name)) \in exts}

\* the orders in which a traversal may yield the set S
Orders(S) ==
    {f \in [1..Cardinality(S) -> S] : \A i, j \in 1..Cardinality(S) : f[i] = f[j] => i = j}

-----------------------------------------------------------------------------
(* Values *)

NoImg == [w |-> 0, h |-> 0]
NoPath == [dir |-> <<>>, name |-> <<>>]
NoText == <<"(unset)">>
NoSize == [w |-> 0, h |-> 0, raised |-> FALSE, set |-> FALSE]

tmp_suffix == <<".", "t", "m", "p">> \o png
compressed_suffix == <<".", "t", "m", "p", "_", "c", "o", "m", "p", "r", "e", "s", "s", "e", "d">> \o png
jpg_suffix == <<".", "j", "p", "g">>
webp_suffix == <<".", "w", "e", "b", "p">>
avif_suffix == <<".", "a", "v", "i", "f">>

\* the source of the current call of process_one, and its entry
cur == files[idx]
src == Entries[cur]

\* every prefix of a directory: mkdir(parents=True, exist_ok=True)
ensure_dir(d) == {SubSeq(d, 1, n) : n \in 0..Len(d)}

\* a plausible slip: --keep-structure is ignored and every output is flattened
TargetSubdir_Flat(e) == <<>>

\* subdir = rel.parent if keep_structure else Path()
TargetSubdir(e) == IF keep_structure THEN e.dir ELSE <<>>

\* stem = src.stem if no_rename else sanitize_filename(src.stem)
ResolvedStem(e) == IF no_rename THEN Stem(e.name) ELSE sanitize_filename(Stem(e.name))

\* the file system after writing `path` on behalf of `src`
DiskWrite(path, id) == {f \in disk : f.path # path} \cup {[path |-> path, src |-> id]}
DiskUnlink(path) == {f \in disk : f.path # path}

-----------------------------------------------------------------------------
(* Initial states *)

PipeIdle ==
    /\ pc = "start" /\ exit_code = -1 /\ files = <<>> /\ idx = 0
    /\ pcf = "idle" /\ img = NoImg /\ orientation = "" /\ stem = <<>>
    /\ base_out = NoPath /\ written = <<>>
    /\ dirs = {} /\ disk = {} /\ stdout = <<>> /\ stderr = <<>>
    /\ calls = <<>> /\ reads = {} /\ writes = {} /\ faults = {} /\ remote_done = FALSE

SanIdle == sx = <<>> /\ s1 = NoText /\ s2 = NoText
ResIdle == rw = 1 /\ rh = 1 /\ rout = NoSize

Init ==
    /\ input_exists \in BOOLEAN
    /\ tree \in IF input_exists THEN Trees ELSE {{}}
    /\ recursive \in BOOLEAN
    /\ no_rename \in BOOLEAN
    /\ use_tinypng \in BOOLEAN
    /\ keep_structure \in BOOLEAN
    /\ TINIFY_AVAILABLE \in BOOLEAN
    /\ AVIF_SUPPORTED \in BOOLEAN
    /\ key_present \in BOOLEAN
    /\ PipeIdle /\ SanIdle /\ ResIdle

-----------------------------------------------------------------------------
(* main *)

Exit(code) == pc' = "exited" /\ exit_code' = code

\* lines 185-187: the output root is created before any check
MainStart ==
    /\ pc = "start"
    /\ dirs' = dirs \cup ensure_dir(<<>>)
    /\ pc' = "check_tinify"
    /\ UNCHANGED <<tree, input_exists, recursive, no_rename, use_tinypng, keep_structure,
                   TINIFY_AVAILABLE, AVIF_SUPPORTED, key_present, exit_code, files, idx,
                   pcf, img, orientation, stem, base_out, written, disk, stdout, stderr,
                   calls, reads, writes, faults, remote_done, sanVars, resVars>>

\* lines 189-191
CheckTinify ==
    /\ pc = "check_tinify"
    /\ IF use_tinypng /\ ~TINIFY_AVAILABLE
       THEN /\ stderr' = Append(stderr, [kind |-> "fatal", cause |-> "tinify not installed"])
            /\ Exit(1)
       ELSE /\ pc' = "check_key"
            /\ UNCHANGED <<stderr, exit_code>>
    /\ UNCHANGED <<tree, input_exists, recursive, no_rename, use_tinypng, keep_structure,
                   TINIFY_AVAILABLE, AVIF_SUPPORTED, key_present, files, idx,
                   pcf, img, orientation, stem, base_out, written, dirs, disk, stdout,
                   calls, reads, writes, faults, remote_done, sanVars, resVars>>

\* a plausible slip: the key is not checked before the batch
CheckKey_Skipped ==
    /\ pc = "check_key"
    /\ pc' = "check_input"
    /\ UNCHANGED <<tree, input_exists, recursive, no_rename, use_tinypng, keep_structure,
                   TINIFY_AVAILABLE, AVIF_SUPPORTED, key_present, files, idx, exit_code,
                   pcf, img, orientation, stem, base_out, written, dirs, disk, stdout,
                   stderr, calls, reads, writes, faults, remote_done, sanVars, resVars>>

\* lines 193-204
CheckKey ==
    /\ pc = "check_key"
    /\ IF use_tinypng /\ ~key_present
       THEN /\ stderr' = Append(stderr, [kind |-> "fatal", cause |-> "TINIFY_KEY missing"])
            /\ Exit(1)
       ELSE /\ pc' = "check_input"
            /\ UNCHANGED <<stderr, exit_code>>
    /\ UNCHANGED <<tree, input_exists, recursive, no_rename, use_tinypng, keep_structure,
                   TINIFY_AVAILABLE, AVIF_SUPPORTED, key_present, files, idx,
                   pcf, img, orientation, stem, base_out, written, dirs, disk, stdout,
                   calls, reads, writes, faults, remote_done, sanVars, resVars>>

\* lines 206-211
CheckInput ==
    /\ pc = "check_input"
    /\ IF ~input_exists
       THEN /\ stderr' = Append(stderr, [kind |-> "fatal", cause |-> "input directory not found"])
            /\ Exit(1)
            /\ UNCHANGED stdout
       ELSE /\ pc' = "discover"
            /\ stdout' = IF AVIF_SUPPORTED THEN stdout
                         ELSE Append(stdout, [kind |-> "info", text |-> "AVIF unavailable"])
            /\ UNCHANGED <<stderr, exit_code>>
    /\ UNCHANGED <<tree, input_exists, recursive, no_rename, use_tinypng, keep_structure,
                   TINIFY_AVAILABLE, AVIF_SUPPORTED, key_present, files, idx,
                   pcf, img, orientation, stem, base_out, written, dirs, disk,
                   calls, reads, writes, faults, remote_done, sanVars, resVars>>

\* lines 213-216: the list of the discovered files, in traversal order
Discover ==
    /\ pc = "discover"
    /\ \E order \in Orders(iter_images(tree, recursive)) :
          /\ files' = order
          /\ IF order = <<>>
             THEN /\ stdout' = Append(stdout, [kind |-> "info", text |-> "no image found"])
                  /\ Exit(0)
             ELSE /\ pc' = "loop"
                  /\ UNCHANGED <<stdout, exit_code>>
    /\ UNCHANGED <<tree, input_exists, recursive, no_rename, use_tinypng, keep_structure,
                   TINIFY_AVAILABLE, AVIF_SUPPORTED, key_present, idx,
                   pcf, img, orientation, stem, base_out, written, dirs, disk, stderr,
                   calls, reads, writes, faults, remote_done, sanVars, resVars>>

\* lines 218-228: the next turn of the loop calls process_one, or the loop is over
LoopNext ==
    /\ pc = "loop" /\ pcf = "idle"
    /\ IF idx < Len(files)
       THEN /\ idx' = idx + 1
            /\ calls' = Append(calls, files[idx + 1])
            /\ pcf' = "open"
            /\ img' = NoImg /\ orientation' = "" /\ stem' = <<>>
            /\ base_out' = NoPath /\ written' = <<>> /\ remote_done' = FALSE
            /\ UNCHANGED <<pc, exit_code>>
       ELSE /\ Exit(0)
            /\ UNCHANGED <<idx, calls, pcf, img, orientation, stem, base_out, written,
                           remote_done>>
    /\ UNCHANGED <<tree, input_exists, recursive, no_rename, use_tinypng, keep_structure,
                   TINIFY_AVAILABLE, AVIF_SUPPORTED, key_present, files,
                   dirs, disk, stdout, stderr, reads, writes, faults, sanVars, resVars>>

-----------------------------------------------------------------------------
(* process_one *)

cfgVars == <<tree, input_exists, recursive, no_rename, use_tinypng, keep_structure,
             TINIFY_AVAILABLE, AVIF_SUPPORTED, key_present>>
mainVars == <<pc, exit_code, files, idx, calls>>

\* lines 158-159: the exception is caught, the error line printed, the call returns
Raise(cause) ==
    /\ stderr' = Append(stderr, [kind |-> "err", src |-> cur, cause |-> cause])
    /\ pcf' = "idle"

\* an exception raised by the environment (file I/O, the remote service)
Fault(cause) ==
    /\ Cardinality(faults) < MaxFaults
    /\ faults' = faults \cup {cur}
    /\ Raise(cause)

\* lines 124-125: Image.open and the orientation label
Open ==
    /\ pcf = "open"
    /\ reads' = reads \cup {cur}
    /\ IF src.good
       THEN /\ img' = [w |-> src.w, h |-> src.h]
            /\ orientation' = IF is_landscape(src.w, src.h) THEN "landscape" ELSE "portrait"
            /\ pcf' = "resize"
            /\ UNCHANGED stderr
       ELSE /\ Raise("cannot identify image file")
            /\ UNCHANGED <<img, orientation>>
    /\ UNCHANGED <<cfgVars, mainVars, stem, base_out, written, dirs, disk, stdout,
                   writes, faults, remote_done, sanVars, resVars>>

\* line 126: resize_preserve_ratio
Resize ==
    /\ pcf = "resize"
    /\ LET size == NewSize(img.w, img.h, TARGET_SIZE)
       IN  IF ResizeAccepts(size)
           THEN /\ img' = size
                /\ pcf' = "prepare"
                /\ UNCHANGED stderr
           ELSE /\ Raise("height and width must be > 0")
                /\ UNCHANGED img
    /\ UNCHANGED <<cfgVars, mainVars, orientation, stem, base_out, written, dirs, disk,
                   stdout, reads, writes, faults, remote_done, sanVars, resVars>>

\* lines 128-135: target directory, stem and base path
Prepare ==
    /\ pcf = "prepare"
    /\ dirs' = dirs \cup ensure_dir(TargetSubdir(src))
    /\ stem' = ResolvedStem(src)
    /\ base_out' = [dir |-> TargetSubdir(src), name |-> stem']
    /\ pcf' = IF use_tinypng THEN "tmp_save" ELSE "save_jpg"
    /\ UNCHANGED <<cfgVars, mainVars, img, orientation, written, disk, stdout, stderr,
                   reads, writes, faults, remote_done, sanVars, resVars>>

\* img.save(path, ...) at position `here`, then on to `next`
Save(here, suffix, next) ==
    /\ pcf = here
    /\ \/ /\ disk' = DiskWrite(with_suffix(base_out, suffix), cur)
          /\ writes' = writes \cup {[path |-> with_suffix(base_out, suffix), src |-> cur]}
          /\ pcf' = next
          /\ UNCHANGED <<stderr, faults>>
       \/ /\ Fault("cannot write file")
          /\ UNCHANGED <<disk, writes>>

\* lines 139-140: the working PNG
TmpSave ==
    /\ Save("tmp_save", tmp_suffix, "tinify")
    /\ UNCHANGED <<cfgVars, mainVars, img, orientation, stem, base_out, written, dirs,
                   stdout, reads, remote_done, sanVars, resVars>>

\* lines 141-142 and 78-91: tinify_compress_file
Tinify ==
    /\ pcf = "tinify"
    /\ IF ~TINIFY_AVAILABLE
       THEN /\ Raise("tinify not installed")
            /\ UNCHANGED <<disk, writes, faults, remote_done>>
       ELSE IF ~key_present
       THEN /\ Raise("TINIFY_KEY missing")
            /\ UNCHANGED <<disk, writes, faults, remote_done>>
       ELSE \/ /\ disk' = DiskWrite(with_suffix(base_out, compressed_suffix), cur)
               /\ writes' = writes \cup
                      {[path |-> with_suffix(base_out, compressed_suffix), src |-> cur]}
               /\ remote_done' = TRUE
               /\ pcf' = "unlink_tmp"
               /\ UNCHANGED <<stderr, faults>>
            \/ /\ Fault("remote compression failed")
               /\ UNCHANGED <<disk, writes, remote_done>>
    /\ UNCHANGED <<cfgVars, mainVars, img, orientation, stem, base_out, written, dirs,
                   stdout, reads, sanVars, resVars>>

\* line 143
UnlinkTmp ==
    /\ pcf = "unlink_tmp"
    /\ disk' = DiskUnlink(with_suffix(base_out, tmp_suffix))
    /\ pcf' = "reopen"
    /\ UNCHANGED <<cfgVars, mainVars, img, orientation, stem, base_out, written, dirs,
                   stdout, stderr, reads, writes, faults, remote_done, sanVars, resVars>>

\* lines 146-147: the compressed PNG is decoded again
Reopen ==
    /\ pcf = "reopen"
    /\ \/ /\ pcf' = "save_jpg"
          /\ UNCHANGED <<stderr, faults>>
       \/ Fault("cannot identify image file")
    /\ UNCHANGED <<cfgVars, mainVars, img, orientation, stem, base_out, written, dirs,
                   disk, stdout, reads, writes, remote_done, sanVars, resVars>>

\* a plausible slip: save_formats_from_image returns after the first format
SaveJpg_ReturnsEarly ==
    /\ Save("save_jpg", jpg_suffix, IF use_tinypng THEN "unlink_compressed" ELSE "print_ok")
    /\ written' = IF pcf' = "idle" THEN written
                  ELSE Append(written, [fmt |-> "jpg", path |-> with_suffix(base_out, jpg_suffix)])
    /\ UNCHANGED <<cfgVars, mainVars, img, orientation, stem, base_out, dirs,
                   stdout, reads, remote_done, sanVars, resVars>>

\* lines 97-99
SaveJpg ==
    /\ Save("save_jpg", jpg_suffix, "save_webp")
    /\ written' = IF pcf' = "idle" THEN written
                  ELSE Append(written, [fmt |-> "jpg", path |-> with_suffix(base_out, jpg_suffix)])
    /\ UNCHANGED <<cfgVars, mainVars, img, orientation, stem, base_out, dirs,
                   stdout, reads, remote_done, sanVars, resVars>>

\* lines 101-103
SaveWebp ==
    /\ Save("save_webp", webp_suffix, "save_avif")
    /\ written' = IF pcf' = "idle" THEN written
                  ELSE Append(written, [fmt |-> "webp", path |-> with_suffix(base_out, webp_suffix)])
    /\ UNCHANGED <<cfgVars, mainVars, img, orientation, stem, base_out, dirs,
                   stdout, reads, remote_done, sanVars, resVars>>

\* the statement after save_formats_from_image returns (lines 150 and 155)
AfterSave == IF use_tinypng THEN "unlink_compressed" ELSE "print_ok"

\* lines 105-111
SaveAvif ==
    /\ IF AVIF_SUPPORTED
       THEN /\ Save("save_avif", avif_suffix, AfterSave)
            /\ written' = IF pcf' = "idle" THEN written
                          ELSE Append(written,
                                      [fmt |-> "avif", path |-> with_suffix(base_out, avif_suffix)])
       ELSE /\ pcf = "save_avif"
            /\ pcf' = AfterSave
            /\ UNCHANGED <<written, disk, writes, stderr, faults>>
    /\ UNCHANGED <<cfgVars, mainVars, img, orientation, stem, base_out, dirs,
                   stdout, reads, remote_done, sanVars, resVars>>

\* line 150
UnlinkCompressed ==
    /\ pcf = "unlink_compressed"
    /\ disk' = DiskUnlink(with_suffix(base_out, compressed_suffix))
    /\ pcf' = "print_ok"
    /\ UNCHANGED <<cfgVars, mainVars, img, orientation, stem, base_out, written, dirs,
                   stdout, stderr, reads, writes, faults, remote_done, sanVars, resVars>>

\* lines 155-156: the success line, and the call returns
PrintOk ==
    /\ pcf = "print_ok"
    /\ stdout' = Append(stdout, [kind |-> "ok", src |-> cur, stem |-> stem,
                                 orientation |-> orientation,
                                 names |-> [i \in 1..Len(written) |-> written[i].path.name]])
    /\ pcf' = "idle"
    /\ UNCHANGED <<cfgVars, mainVars, img, orientation, stem, base_out, written, dirs,
                   disk, stderr, reads, writes, faults, remote_done, sanVars, resVars>>

-----------------------------------------------------------------------------
(* The program *)

Next ==
    \/ MainStart \/ CheckTinify \/ CheckKey \/ CheckInput \/ Discover \/ LoopNext
    \/ Open \/ Resize \/ Prepare \/ TmpSave \/ Tinify \/ UnlinkTmp \/ Reopen
    \/ SaveJpg \/ SaveWebp \/ SaveAvif \/ UnlinkCompressed \/ PrintOk

Spec == Init /\ [][Next]_vars

-----------------------------------------------------------------------------
(* sanitize_filename on every text of at most MaxStemLen characters *)

Alphabet == {"a", "B", "7", "_", "-", " ", "!", "U+00C9", "U+00A0", "U+FF3F", "U+00DF",
             "U+0301"}

Texts == UNION {[1..n -> Alphabet] : n \in 0..MaxStemLen}

CfgIdle ==
    /\ tree = {} /\ input_exists = FALSE /\ recursive = FALSE /\ no_rename = FALSE
    /\ use_tinypng = FALSE /\ keep_structure = FALSE /\ TINIFY_AVAILABLE = FALSE
    /\ AVIF_SUPPORTED = FALSE /\ key_present = FALSE

InitSanitize ==
    /\ CfgIdle /\ PipeIdle /\ ResIdle
    /\ sx \in Texts /\ s1 = NoText /\ s2 = NoText

SanitizeOnce ==
    /\ s1 = NoText
    /\ s1' = sanitize_filename(sx)
    /\ UNCHANGED <<pipeVars, resVars, sx, s2>>

SanitizeAgain ==
    /\ s1 # NoText /\ s2 = NoText
    /\ s2' = sanitize_filename(s1)
    /\ UNCHANGED <<pipeVars, resVars, sx, s1>>

NextSanitize == SanitizeOnce \/ SanitizeAgain

SpecSanitize == InitSanitize /\ [][NextSanitize]_vars

-----------------------------------------------------------------------------
(* resize_preserve_ratio on every size drawn from Dims *)

ExtraDims == {15, 99, 3333, 4000, 6666}
Dims == (1..MaxDim) \cup ExtraDims

InitResize ==
    /\ CfgIdle /\ PipeIdle /\ SanIdle
    /\ rw \in Dims /\ rh \in Dims /\ rout = NoSize

\* lines 60-71; img.resize raises on a size it does not accept
ApplyResize ==
    /\ ~rout.set
    /\ LET size == NewSize(rw, rh, TARGET_SIZE)
       IN  rout' = [w |-> size.w, h |-> size.h, raised |-> ~ResizeAccepts(size), set |-> TRUE]
    /\ UNCHANGED <<pipeVars, sanVars, rw, rh>>

\* the image returned is resized once more
ApplyResizeAgain ==
    /\ rout.set /\ ~rout.raised
    /\ rw' = rout.w /\ rh' = rout.h /\ rout' = NoSize
    /\ rw # rout.w \/ rh # rout.h
    /\ UNCHANGED <<pipeVars, sanVars>>

NextResize == ApplyResize \/ ApplyResizeAgain

SpecResize == InitResize /\ [][NextResize]_vars

-----------------------------------------------------------------------------
(* Vocabulary of the properties *)

\* the call of process_one for files[i] has returned
Ended(i) == i < idx \/ (i = idx /\ pcf = "idle")

OkLines(id) == {i \in 1..Len(stdout) : stdout[i].kind = "ok" /\ stdout[i].src = id}
ErrLines(id) == {i \in 1..Len(stderr) : stderr[i].kind = "err" /\ stderr[i].src = id}

\* the pre-batch conditions the specification calls fatal
Fatal ==
    \/ ~input_exists
    \/ use_tinypng /\ ~TINIFY_AVAILABLE
    \/ use_tinypng /\ ~key_present

\* the suffixes save_formats_from_image is to write, in order
FormatSuffixes ==
    IF AVIF_SUPPORTED THEN <<jpg_suffix, webp_suffix, avif_suffix>>
    ELSE <<jpg_suffix, webp_suffix>>

\* the directory the specification gives the outputs of src
SpecDir(id) == IF keep_structure THEN Entries[id].dir ELSE <<>>

\* the two temporary files of the processing of src
TempPaths(id) ==
    LET base == [dir |-> TargetSubdir(Entries[id]), name |-> ResolvedStem(Entries[id])]
    IN  {with_suffix(base, tmp_suffix), with_suffix(base, compressed_suffix)}

\* the stages of section 4.6, numbered in their order:
\* 1 Discovered, 2 Decoded, 3 Resized, 4 RemoteCompressed, 5 Emitted, 6 returned
StageRank(p, remote) ==
    CASE p = "open" -> 1
      [] p = "resize" -> 2
      [] p \in {"prepare", "tmp_save", "tinify"} -> 3
      [] p \in {"unlink_tmp", "reopen"} -> 4
      [] p \in {"save_jpg", "save_webp", "save_avif"} -> IF remote THEN 4 ELSE 3
      [] p \in {"unlink_compressed", "print_ok"} -> 5
      [] OTHER -> 6

-----------------------------------------------------------------------------
(* Properties *)

\* C1: for a batch of valid (decodable) images and corrupt files, in an environment
\* without I/O or remote failure, every discovered file is handed to process_one
\* exactly once and the run ends with one success line per valid image, one error
\* line per corrupt file, and exit status 0.
C1_BatchCounts ==
    (pc = "exited" /\ ~Fatal /\ faults = {}) =>
        /\ calls = files
        /\ \A i \in 1..Len(files) :
              /\ Cardinality(OkLines(files[i])) = IF Entries[files[i]].good THEN 1 ELSE 0
              /\ Cardinality(ErrLines(files[i])) = IF Entries[files[i]].good THEN 0 ELSE 1
        /\ exit_code = 0

\* C2: with remote compression enabled, once process_one has returned for a file,
\* in success or in error, neither of its two temporary files exists on disk.
C2_TempFilesDeleted ==
    \A i \in 1..Len(files) :
        (use_tinypng /\ Ended(i)) =>
            \A f \in disk : f.src = files[i] => f.path \notin TempPaths(files[i])

\* C3: under a fatal pre-batch condition main ends with a non-zero exit status before
\* discovery: process_one is never called and no image is read or written; without
\* such a condition main never exits non-zero.
C3_FatalExitsBeforeBatch ==
    /\ Fatal => /\ calls = <<>> /\ reads = {} /\ writes = {} /\ disk = {}
                /\ files = <<>> /\ pc \notin {"discover", "loop"} /\ pcf = "idle"
                /\ pc = "exited" => exit_code = 1
                /\ pc # "exited" => ENABLED Next
    /\ (~Fatal /\ pc = "exited") => exit_code = 0
    /\ pc # "exited" => exit_code = -1

C3_Witness ==
    /\ use_tinypng /\ TINIFY_AVAILABLE /\ ~key_present /\ input_exists
    /\ iter_images(tree, recursive) # {}
    /\ pc = "exited" /\ exit_code = 1

\* C4: with --no-rename every file written for a successfully processed source is
\* named <original stem><suffix>, and the stem of the success line is that stem.
C4_NoRenameKeepsStem ==
    no_rename =>
        \A i \in 1..Len(stdout) :
            stdout[i].kind = "ok" =>
                /\ stdout[i].stem = Stem(Entries[stdout[i].src].name)
                /\ \A k \in 1..Len(stdout[i].names) :
                      stdout[i].names[k] = Stem(Entries[stdout[i].src].name) \o FormatSuffixes[k]

\* C5: without remote compression and without an I/O failure, the processing of any
\* decodable image writes a .jpg and a .webp file, and a .avif file iff AVIF is supported.
C5_AlwaysEmits ==
    \A i \in 1..Len(files) :
        (~use_tinypng /\ Ended(i) /\ Entries[files[i]].good /\ files[i] \notin faults) =>
            /\ \E x \in writes : x.src = files[i] /\ Suffix(x.path.name) = jpg_suffix
            /\ \E x \in writes : x.src = files[i] /\ Suffix(x.path.name) = webp_suffix
            /\ AVIF_SUPPORTED <=>
                   \E x \in writes : x.src = files[i] /\ Suffix(x.path.name) = avif_suffix

\* C6: no two distinct source files of a batch write the same output path: after a
\* batch in which every file succeeds, the output holds one file per format per
\* source, none overwritten by another source.
C6_NoSharedOutputPath ==
    (pc = "exited" /\ \A i \in 1..Len(files) : OkLines(files[i]) # {}) =>
        /\ \A x, y \in writes : x.path = y.path => x.src = y.src
        /\ \A k \in 1..Len(FormatSuffixes) :
              Cardinality({f \in disk : Suffix(f.path.name) = FormatSuffixes[k]}) = Len(files)

\* C7: the size resize_preserve_ratio asks for is, for every W, H >= 1,
\* (3333, floor(H*3333/W)) when W >= H and (floor(W*3333/H), 3333) when W < H,
\* floor being the floor of the exact quotient.
C7_ExactFloor ==
    rout.set =>
        IF rw >= rh
        THEN rout.w = TARGET_SIZE /\ rout.h = (rh * TARGET_SIZE) \div rw
        ELSE rout.w = (rw * TARGET_SIZE) \div rh /\ rout.h = TARGET_SIZE

C9_OutputDirectory ==
    /\ \A x \in writes : x.path.dir = SpecDir(x.src) /\ x.path.dir \in dirs
    /\ \A f \in disk : f.path.dir = SpecDir(f.src) /\ f.path.dir \in dirs

C9_Witness ==
    /\ keep_structure
    /\ \E i \in 1..Len(stdout) : stdout[i].kind = "ok" /\ Entries[stdout[i].src].dir = <<"sub">>
    /\ \E f \in disk : f.path.dir = <<"sub">> /\ Suffix(f.path.name) = jpg_suffix

\* the state part of C10
C10_Inv ==
    /\ pcf \in {"tmp_save", "tinify", "unlink_tmp", "reopen", "unlink_compressed"} => use_tinypng
    /\ pcf \in {"save_jpg", "save_webp", "save_avif", "unlink_compressed", "print_ok"} =>
          (remote_done <=> use_tinypng)
    /\ \A i \in 1..Len(stdout) :
          stdout[i].kind = "ok" =>
              /\ Len(stdout[i].names) = Len(FormatSuffixes)
              /\ \A k \in 1..Len(stdout[i].names) :
                    /\ Suffix(stdout[i].names[k]) = FormatSuffixes[k]
                    /\ [path |-> [dir |-> SpecDir(stdout[i].src), name |-> stdout[i].names[k]],
                        src |-> stdout[i].src] \in writes
    /\ \A i \in 1..Len(files) :
          Cardinality(OkLines(files[i])) + Cardinality(ErrLines(files[i]))
              = IF Ended(i) THEN 1 ELSE 0
    /\ calls = SubSeq(files, 1, idx)

\* the step part of C10
C10_Step ==
    /\ (pcf # "idle" /\ pcf' # "idle") =>
          /\ idx' = idx
          /\ StageRank(pcf', remote_done') >= StageRank(pcf, remote_done)
    /\ (pcf = "idle" /\ pcf' # "idle") => (pcf' = "open" /\ idx' = idx + 1)
    /\ idx' # idx => pcf = "idle"

\* C10: the processing of a file goes through the stages Discovered, Decoded, Resized,
\* (RemoteCompressed,) Emitted, Logged in this order and never back; RemoteCompressed
\* is entered iff --tinypng; the success line is printed after every format is
\* written; a file ends with exactly one line, success or error; the next file starts
\* only after the current one has ended.
C10_LinearStages == []C10_Inv /\ [][C10_Step]_vars

C10_Witness ==
    /\ use_tinypng /\ pc = "exited" /\ Len(files) = 2
    /\ \E i \in 1..Len(stdout) : stdout[i].kind = "ok"
    /\ \E i \in 1..Len(stderr) : stderr[i].kind = "err"

=============================================================================
